---- MODULE Spec2Model ----
(***************************************************************************)
(* beancount-db: the Deutsche Bank current account CSV importer            *)
(* (beancount_db/current.py, beancount_db/__init__.py).                    *)
(*                                                                         *)
(* Text is modelled as a sequence of one-character strings, so that the    *)
(* regular expressions, str.strip, str.replace, Decimal and strptime are   *)
(* computed character by character.  A table line is modelled after the    *)
(* csv module has split it: a sequence of fields (<< >> for a blank line). *)
(* The modelled alphabet holds letters, digits, ' ', TAB and the           *)
(* punctuation , . / - ; :  (no exponent, underscore or newline inside a   *)
(* number or a line).                                                      *)
(***************************************************************************)
EXTENDS Integers, Sequences, FiniteSets, TLC

\* ---------------------------------------------------------------- bounds
\* Physical lines of the table after its header row that one file may hold.
MaxRows == 3
\* Calls of extract made on one importer in one behaviour.
MaxCalls == 2
\* Lines of a file content handed to identify.
MaxContentLines == 3
\* Digits before the '.' of an amount handed to format_number.
MaxDigits == 7

\* ------------------------------------------------------- text primitives
Digit == {"0", "1", "2", "3", "4", "5", "6", "7", "8", "9"}
\* The characters Python's \s and str.strip() treat as white space, within
\* the modelled alphabet ("\n" occurs in a file content only, never inside
\* a line).
Whitespace == {" ", "\t", "\n"}

DigitVal(c) ==
    CASE c = "0" -> 0 [] c = "1" -> 1 [] c = "2" -> 2 [] c = "3" -> 3
      [] c = "4" -> 4 [] c = "5" -> 5 [] c = "6" -> 6 [] c = "7" -> 7
      [] c = "8" -> 8 [] c = "9" -> 9

AllDigits(s) == \A i \in 1..Len(s) : s[i] \in Digit

RECURSIVE ToInt(_)
\* int() of a sequence of digits (0 for the empty sequence).
ToInt(s) ==
    IF s = << >> THEN 0
    ELSE 10 * ToInt(SubSeq(s, 1, Len(s) - 1)) + DigitVal(s[Len(s)])

SetMin(S) == CHOOSE x \in S : \A y \in S : x <= y
SetMax(S) == CHOOSE x \in S : \A y \in S : x >= y

\* str.strip(): leading and trailing white space removed.
Strip(s) ==
    IF \A i \in 1..Len(s) : s[i] \in Whitespace THEN << >>
    ELSE SubSeq(s,
                CHOOSE i \in 1..Len(s) :
                    s[i] \notin Whitespace /\ \A j \in 1..(i - 1) : s[j] \in Whitespace,
                CHOOSE i \in 1..Len(s) :
                    s[i] \notin Whitespace /\ \A j \in (i + 1)..Len(s) : s[j] \in Whitespace)

\* One pattern element against one character: "\\s", "\\d" and "ANY" are
\* the classes \s, \d and '.' (any character but a line break); any other
\* element is a literal character.
ClassMatch(p, c) ==
    IF p = "\\s" THEN c \in Whitespace
    ELSE IF p = "\\d" THEN c \in Digit
    ELSE IF p = "ANY" THEN c # "\n"
    ELSE c = p

\* A pattern without repetition matches a text of the same length.
MatchFixed(pat, s) ==
    /\ Len(pat) = Len(s)
    /\ \A i \in 1..Len(pat) : ClassMatch(pat[i], s[i])

\* ------------------------------------------------------------- literals
TransactionsWord == <<"T","r","a","n","s","a","c","t","i","o","n","s">>
CustomerWord == <<";",";",";","C","u","s","t","o","m","e","r">>
NumberWord == <<"n","u","m","b","e","r",":">>
OldWord == <<"O","l","d">>
BalanceWord == <<"b","a","l","a","n","c","e",":",";",";",";",";">>
Line4Text == <<"T","r","a","n","s","a","c","t","i","o","n","s"," ","p","e","n","d","i","n","g"," ","a","r","e"," ","n","o","t"," ","i","n","c","l","u","d","e","d"," ","i","n"," ","t","h","i","s"," ","r","e","p","o","r","t",".">>
AccountBalance == <<"A","c","c","o","u","n","t"," ","b","a","l","a","n","c","e">>
EUR == <<"E","U","R">>
USD == <<"U","S","D">>

\* Python's None, as a field value or an attribute value.
None == <<"<None>">>

DATA_HEADERS ==
    << "Booking date", "Value date", "Transaction Type",
       "Beneficiary / Originator", "Payment Details", "IBAN", "BIC",
       "Customer Reference", "Mandate Reference", "Creditor ID",
       "Compensation amount", "Original Amount", "Ultimate creditor",
       "Number of transactions", "Number of cheques", "Debit", "Credit",
       "Currency" >>

\* ------------------------------------------- construction configuration
\* CurrentAccount(branch, number, account, currency="EUR")
Branch == <<"1", "0", "0">>
CustNumber == <<"4", "2">>
Account == "Assets:DB:Current"
Currency == EUR
\* ImporterProtocol.FLAG
FLAG == "*"
FileName == "statement.csv"

\* ------------------------------------------------------------- patterns
\* self._expected_header_regex.match(text):
\* ^Transactions\s.*;;;Customer\snumber:\s<branch>\s<number>$ with
\* re.MULTILINE.  match() tries the pattern at the first character only;
\* '.' does not match "\n", \s does; '$' matches at the end of the text and
\* before a "\n".
HeaderPrefixPat == TransactionsWord \o <<"\\s">>
HeaderSuffixPat(branch, number) ==
    CustomerWord \o <<"\\s">> \o NumberWord \o <<"\\s">> \o branch
        \o <<"\\s">> \o number

\* A variant of ExpectedHeaderMatch: the customer number is not matched.
ExpectedHeaderMatch_PrefixOnly(branch, number, line) ==
    /\ Len(line) >= Len(HeaderPrefixPat)
    /\ MatchFixed(HeaderPrefixPat, SubSeq(line, 1, Len(HeaderPrefixPat)))

ExpectedHeaderMatch(branch, number, line) ==
    LET pre == HeaderPrefixPat
        suf == HeaderSuffixPat(branch, number)
    IN  /\ Len(line) >= Len(pre) + Len(suf)
        /\ MatchFixed(pre, SubSeq(line, 1, Len(pre)))
        /\ \E e \in (Len(pre) + Len(suf))..Len(line) :
              /\ MatchFixed(suf, SubSeq(line, e - Len(suf) + 1, e))
              /\ \A i \in (Len(pre) + 1)..(e - Len(suf)) : line[i] # "\n"
              /\ e = Len(line) \/ line[e + 1] = "\n"

\* A variant of identify: the pattern is searched for at the start of
\* every line of the content (re.search).
identify_Search(contents) ==
    \E b \in 1..Len(contents) :
        /\ b = 1 \/ contents[b - 1] = "\n"
        /\ ExpectedHeaderMatch(Branch, CustNumber, SubSeq(contents, b, Len(contents)))

\* identify(file_): self._expected_header_regex.match(file_.contents())
identify(contents) == ExpectedHeaderMatch(Branch, CustNumber, contents)

\* self._from_to_regex: ^(\d\d\/\d\d\/\d\d\d\d) - (\d\d\/\d\d\/\d\d\d\d)$
DatePat == <<"\\d","\\d","/","\\d","\\d","/","\\d","\\d","\\d","\\d">>
FromToPat == DatePat \o <<" ", "-", " ">> \o DatePat

\* The match object: whether it matched, and groups 1 and 2.
FromToMatch(line) ==
    IF MatchFixed(FromToPat, line)
    THEN [matched |-> TRUE, g1 |-> SubSeq(line, 1, 10), g2 |-> SubSeq(line, 14, 23)]
    ELSE [matched |-> FALSE, g1 |-> None, g2 |-> None]

\* (\d+)(,(\d+))*.\d\d : groups of digits joined by single commas, then any
\* one character, then two digits.
DigitGroups(s) ==
    /\ Len(s) >= 1
    /\ s[1] \in Digit
    /\ s[Len(s)] \in Digit
    /\ \A i \in 1..Len(s) : s[i] \in Digit \/ s[i] = ","
    /\ \A i \in 1..(Len(s) - 1) : ~(s[i] = "," /\ s[i + 1] = ",")

AmountPatMatch(s) ==
    /\ Len(s) >= 4
    /\ DigitGroups(SubSeq(s, 1, Len(s) - 3))
    /\ ClassMatch("ANY", s[Len(s) - 2])
    /\ s[Len(s) - 1] \in Digit
    /\ s[Len(s)] \in Digit

\* self._starting_balance_regex.match(line):
\* ^Old\sbalance:;;;;((\d+)(,(\d+))*.\d\d);<currency>$
StartingBalancePrefixPat == OldWord \o <<"\\s">> \o BalanceWord

StartingBalanceMatch(currency, line) ==
    LET pre == StartingBalancePrefixPat
        suf == <<";">> \o currency
    IN  /\ Len(line) >= Len(pre) + Len(suf)
        /\ MatchFixed(pre, SubSeq(line, 1, Len(pre)))
        /\ MatchFixed(suf, SubSeq(line, Len(line) - Len(suf) + 1, Len(line)))
        /\ AmountPatMatch(SubSeq(line, Len(pre) + 1, Len(line) - Len(suf)))

\* ---------------------------------------------------------------- dates
IsLeap(y) == (y % 4 = 0 /\ y % 100 # 0) \/ y % 400 = 0

DaysInMonth(y, m) ==
    IF m = 2 THEN (IF IsLeap(y) THEN 29 ELSE 28)
    ELSE IF m \in {4, 6, 9, 11} THEN 30 ELSE 31

NoDate == [ok |-> FALSE, y |-> 0, m |-> 0, d |-> 0]

\* datetime.strptime(s, "%m/%d/%Y").date(): %m is 1[0-2]|0[1-9]|[1-9],
\* %d is 3[01]|[12]\d|0[1-9]|[1-9]| [1-9], %Y is \d\d\d\d; the date must
\* exist.  ok = FALSE stands for the ValueError.
Strptime(s) ==
    LET slashes == {i \in 1..Len(s) : s[i] = "/"}
    IN  IF s = None \/ Cardinality(slashes) # 2 THEN NoDate
        ELSE
          LET p1 == SetMin(slashes)
              p2 == SetMax(slashes)
              ms == SubSeq(s, 1, p1 - 1)
              ds0 == SubSeq(s, p1 + 1, p2 - 1)
              ds == IF Len(ds0) = 2 /\ ds0[1] = " " THEN SubSeq(ds0, 2, 2) ELSE ds0
              ys == SubSeq(s, p2 + 1, Len(s))
              m == ToInt(ms)
              d == ToInt(ds)
              y == ToInt(ys)
          IN  IF /\ Len(ms) \in {1, 2} /\ AllDigits(ms) /\ m \in 1..12
                 /\ Len(ds) \in {1, 2} /\ AllDigits(ds) /\ d \in 1..31
                 /\ Len(ys) = 4 /\ AllDigits(ys) /\ y >= 1
                 /\ d <= DaysInMonth(y, m)
              THEN [ok |-> TRUE, y |-> y, m |-> m, d |-> d]
              ELSE NoDate

\* -------------------------------------------------------------- numbers
\* str.replace(old, ""), for a one-character old.
Remove(s, old) == SelectSeq(s, LAMBDA c : c # old)

\* A Decimal: sign as in as_tuple() (1 for '-'), the signed coefficient,
\* scale = minus the exponent, so that a finite value is coef / 10^scale;
\* special is "" for a finite value, else "Infinity", "NaN" or "sNaN" (coef
\* then holds the diagnostic digits of a NaN).  ok = FALSE stands for
\* decimal.InvalidOperation (and for None where an attribute is stored).
Dec(sign, mag, scale, special) ==
    [ok |-> TRUE, sign |-> sign, coef |-> IF sign = 1 THEN 0 - mag ELSE mag,
     scale |-> scale, special |-> special]

Finite(coef, scale) ==
    [ok |-> TRUE, sign |-> IF coef < 0 THEN 1 ELSE 0, coef |-> coef,
     scale |-> scale, special |-> ""]

NoNumber == [ok |-> FALSE, sign |-> 0, coef |-> 0, scale |-> 0, special |-> ""]

\* str.lower() on the letters of the modelled alphabet.
UpperCase == <<"A","B","C","D","E","F","G","H","I","J","K","L","M",
               "N","O","P","Q","R","S","T","U","V","W","X","Y","Z">>
LowerCase == <<"a","b","c","d","e","f","g","h","i","j","k","l","m",
               "n","o","p","q","r","s","t","u","v","w","x","y","z">>
LowerOf ==
    [c \in {UpperCase[k] : k \in 1..Len(UpperCase)} |->
        LowerCase[CHOOSE k \in 1..Len(UpperCase) : UpperCase[k] = c]]
Lower(s) ==
    [i \in 1..Len(s) |-> IF s[i] \in DOMAIN LowerOf THEN LowerOf[s[i]] ELSE s[i]]

\* Whether t begins with the text pre.
StartsWith(t, pre) == Len(t) >= Len(pre) /\ SubSeq(t, 1, Len(pre)) = pre

\* The one element of a singleton set.
Only(S) == CHOOSE x \in S : TRUE

\* Digits with at most one '.', at least one digit, then nothing or an
\* exponent: the text after 'e', an optional sign and at least one digit.
ReadNumber(sign, mant, hasexp, expt) ==
    LET expsigned == Len(expt) >= 1 /\ expt[1] \in {"-", "+"}
        expdigits == IF expsigned THEN SubSeq(expt, 2, Len(expt)) ELSE expt
        exp == IF expsigned /\ expt[1] = "-"
               THEN 0 - ToInt(expdigits) ELSE ToInt(expdigits)
        dots == {i \in 1..Len(mant) : mant[i] = "."}
        digits == Remove(mant, ".")
        frac == IF dots = {} THEN 0 ELSE Len(mant) - SetMin(dots)
    IN  IF /\ Cardinality(dots) <= 1
           /\ Len(digits) >= 1
           /\ AllDigits(digits)
           /\ ~hasexp \/ (Len(expdigits) >= 1 /\ AllDigits(expdigits))
        THEN Dec(sign, ToInt(digits), frac - exp, "")
        ELSE NoNumber

\* The text after the sign, in lower case: Inf or Infinity, NaN or sNaN with
\* optional diagnostic digits, or a number.
ReadBody(sign, body) ==
    LET es == {i \in 1..Len(body) : body[i] = "e"}
    IN  IF body \in { <<"i", "n", "f">>, <<"i", "n", "f", "i", "n", "i", "t", "y">> }
        THEN Dec(sign, 0, 0, "Infinity")
        ELSE IF StartsWith(body, <<"n", "a", "n">>) /\ AllDigits(SubSeq(body, 4, Len(body)))
        THEN Dec(sign, ToInt(SubSeq(body, 4, Len(body))), 0, "NaN")
        ELSE IF StartsWith(body, <<"s", "n", "a", "n">>) /\ AllDigits(SubSeq(body, 5, Len(body)))
        THEN Dec(sign, ToInt(SubSeq(body, 5, Len(body))), 0, "sNaN")
        ELSE IF es = {}
        THEN ReadNumber(sign, body, FALSE, << >>)
        ELSE Only({ ReadNumber(sign, mant, TRUE, SubSeq(body, SetMin(es) + 1, Len(body))) :
                      mant \in {SubSeq(body, 1, SetMin(es) - 1)} })

\* Decimal(s) for a text of the modelled alphabet.  The text is stripped of
\* surrounding white space and of every '_', then read, letters in either
\* case, as an optional sign and the body above.
DecimalOf(s) ==
    Only({ IF Len(t) >= 1 /\ t[1] \in {"-", "+"}
           THEN Only({ ReadBody(IF t[1] = "-" THEN 1 ELSE 0, body) :
                         body \in {Lower(SubSeq(t, 2, Len(t)))} })
           ELSE Only({ ReadBody(0, body) : body \in {Lower(t)} }) :
           t \in {Remove(Strip(s), "_")} })

\* A variant of format_number: the separators are left in.
format_number_NoStrip(value) == DecimalOf(value)

\* A variant of format_number: '.' groups thousands and ',' is the decimal
\* mark.
format_number_DecimalComma(value) ==
    DecimalOf([i \in 1..Len(Remove(value, ".")) |->
                 IF Remove(value, ".")[i] = "," THEN "." ELSE Remove(value, ".")[i]])

\* A variant of format_number: every mark is removed, the '.' as well.
format_number_StripAll(value) == DecimalOf(Remove(Remove(value, ","), "."))

\* format_number(value) == Decimal(value.replace(",", "")).  (The package
\* defines it after importing the module that imports it; the model takes
\* the function as defined.)
format_number(value) == DecimalOf(Remove(value, ","))

RECURSIVE Pow10(_)
Pow10(n) == IF n = 0 THEN 1 ELSE 10 * Pow10(n - 1)

\* Whether a == b is True for two Decimals: numeric equality
\* (Decimal("50") == Decimal("50.00")); an infinity equals the infinity of
\* its sign only, a NaN equals nothing (comparing a signalling NaN raises,
\* so it is not True either).
DecEq(a, b) ==
    IF a.special # "" \/ b.special # ""
    THEN a.special = "Infinity" /\ b.special = "Infinity" /\ a.sign = b.sign
    ELSE IF a.scale >= b.scale
    THEN a.coef = b.coef * Pow10(a.scale - b.scale)
    ELSE b.coef = a.coef * Pow10(b.scale - a.scale)

\* Whether a and b are the same Decimal: sign, coefficient, exponent and
\* kind agree.  This is what storing a value keeps, a NaN included, which
\* == does not tell.
SameDecimal(a, b) ==
    /\ a.sign = b.sign
    /\ a.coef = b.coef
    /\ a.scale = b.scale
    /\ a.special = b.special

\* ------------------------------------------------------------ exceptions
\* InvalidFormatError(message, lineno=None): NoLine stands for lineno=None,
\* in which case no " (line N)" is appended to the message.
NoLine == 0

\* An exception: its class, the fixed part of its message, the value
\* interpolated into the message, and the line number given to it.
Exc(cls, text, arg, lineno) ==
    [cls |-> cls, text |-> text, arg |-> arg, lineno |-> lineno]

InvalidFormatError(text, arg, lineno) ==
    Exc("InvalidFormatError", text, arg, lineno)

\* An exception raised by the library code extract calls.
LibraryError(cls) == Exc(cls, "", None, NoLine)

NoExc == Exc("", "", None, NoLine)

\* ----------------------------------------------------------- csv reader
Range(f) == {f[i] : i \in DOMAIN f}

\* The key csv.DictReader files surplus fields under: restkey, None.
RestKey == "<restkey None>"

\* csv.DictReader's row: dict(zip(fieldnames, row)), a repeated name keeping
\* its last column; restval None for the columns the row is too short to
\* hold; the list of the fields beyond the last name under restkey, when
\* there are any.
DictRow(fieldnames, fields) ==
    [name \in Range(fieldnames)
               \cup (IF Len(fields) > Len(fieldnames) THEN {RestKey} ELSE {}) |->
        IF name = RestKey
        THEN SubSeq(fields, Len(fieldnames) + 1, Len(fields))
        ELSE LET p == SetMax({i \in 1..Len(fieldnames) : fieldnames[i] = name})
             IN  IF p <= Len(fields) THEN fields[p] ELSE None]

\* A variant of HeadersDiffer: the names are compared in order.
HeadersDiffer_Ordered(fieldnames) == fieldnames # DATA_HEADERS

\* set(reader.fieldnames) != set(self.DATA_HEADERS)
HeadersDiffer(fieldnames) == Range(fieldnames) # Range(DATA_HEADERS)

\* ------------------------------------------------------- row processing
\* Python truth value of a field: "" and None are false.
Truthy(v) == v # << >> /\ v # None

\* line["Booking date"] == "Account balance"
IsBalanceRow(line) == line["Booking date"] = AccountBalance

\* A variant of BalanceCurrencyDiffers: the Currency column is checked.
BalanceCurrencyDiffers_Currency(line, currency) == line["Currency"] # currency

\* The terminal row's check: line["IBAN"] != self.currency
BalanceCurrencyDiffers(line, currency) == line["IBAN"] # currency

\* A variant of CurrencyDiffers: the check is left out.
CurrencyDiffers_Never(line, currency) == FALSE

\* An ordinary row's check: line["Currency"] != self.currency
CurrencyDiffers(line, currency) == line["Currency"] # currency

\* A variant of DebitCredit: a row with a Debit value is never refused.
DebitCredit_DebitFirst(line) ==
    IF Truthy(line["Debit"]) THEN "Debit"
    ELSE (IF Truthy(line["Credit"]) THEN "Credit" ELSE "neither")

\* A variant of DebitCredit: a row without a Debit value is read as a credit.
DebitCredit_NoNeither(line) ==
    IF Truthy(line["Debit"])
    THEN (IF Truthy(line["Credit"]) THEN "both" ELSE "Debit")
    ELSE "Credit"

\* The Debit / Credit selection of an ordinary row: which field supplies
\* the value, or which error is raised.
DebitCredit(line) ==
    IF Truthy(line["Debit"])
    THEN (IF Truthy(line["Credit"]) THEN "both" ELSE "Debit")
    ELSE (IF Truthy(line["Credit"]) THEN "Credit" ELSE "neither")

\* data.Transaction(meta, date, flag, payee, narration, tags, links,
\* postings) with one Posting(account, Amount(value, currency), ...).
Transaction(lineno, date, value, payee) ==
    [meta |-> [filename |-> FileName, lineno |-> lineno],
     date |-> [y |-> date.y, m |-> date.m, d |-> date.d],
     flag |-> FLAG,
     payee |-> payee,
     narration |-> << >>,
     postings |-> << [account |-> Account,
                      units |-> [number |-> [sign |-> value.sign, coef |-> value.coef,
                                            scale |-> value.scale,
                                            special |-> value.special],
                                 currency |-> Currency]] >>]

RowOutcome(kind, exc, balance, entry) ==
    [kind |-> kind, exc |-> exc, balance |-> balance, entry |-> entry]

Raise(exc) == RowOutcome("raise", exc, NoNumber, << >>)

\* The body of the terminal-row branch, for the row at line number lineno.
BalanceRow(line, lineno) ==
    IF BalanceCurrencyDiffers(line, Currency)
    THEN Raise(InvalidFormatError("Unexpected currency", line["Currency"], lineno))
    ELSE IF line["Payment Details"] = None
    THEN Raise(LibraryError("AttributeError"))
    ELSE LET v == format_number(line["Payment Details"])
         IN  IF ~v.ok THEN Raise(LibraryError("InvalidOperation"))
             ELSE RowOutcome("balance", NoExc, v, << >>)

\* The body of the ordinary-row branch, for the row at line number lineno.
OrdinaryRow(line, lineno) ==
    IF CurrencyDiffers(line, Currency)
    THEN Raise(InvalidFormatError("Unexpected currency", line["Currency"], lineno))
    ELSE
      LET dc == DebitCredit(line)
      IN  IF dc = "both"
          THEN Raise(InvalidFormatError("Cannot have both debit and credit values", None, lineno))
          ELSE IF dc = "neither"
          THEN Raise(InvalidFormatError("Neither debit not credit value found", None, lineno))
          ELSE
            LET value == format_number(line[dc])
                date == Strptime(line["Value date"])
                payee == line["Beneficiary / Originator"]
            IN  IF ~value.ok THEN Raise(LibraryError("InvalidOperation"))
                ELSE IF line["Value date"] = None THEN Raise(LibraryError("TypeError"))
                ELSE IF ~date.ok THEN Raise(LibraryError("ValueError"))
                ELSE IF payee = None THEN Raise(LibraryError("AttributeError"))
                ELSE RowOutcome("entry", NoExc, NoNumber,
                                Transaction(lineno, date, value, Strip(payee)))

\* A variant of AppendEntry: the new record is put first.
AppendEntry_Prepend(es, e) == <<e>> \o es

\* entries.append(transaction)
AppendEntry(es, e) == Append(es, e)

\* One iteration of the loop over the reader, for the row at lineno.
ProcessRow(line, lineno) ==
    IF IsBalanceRow(line) THEN BalanceRow(line, lineno) ELSE OrdinaryRow(line, lineno)

\* --------------------------------------------------------------- inputs
\* The files extract is run on: each line the call reads is drawn from the
\* sets below, or the file ends there (EOF).
MkHeaderLine(mid, branch, number) ==
    TransactionsWord \o <<" ">> \o mid \o CustomerWord \o <<" ">> \o NumberWord
        \o <<" ">> \o branch \o <<" ">> \o number

D_0101_2023 == <<"0","1","/","0","1","/","2","0","2","3">>
D_0131_2023 == <<"0","1","/","3","1","/","2","0","2","3">>
D_0201_2024 == <<"0","2","/","0","1","/","2","0","2","4">>
D_0229_2024 == <<"0","2","/","2","9","/","2","0","2","4">>
D_0230_2023 == <<"0","2","/","3","0","/","2","0","2","3">>
D_1301_2023 == <<"1","3","/","0","1","/","2","0","2","3">>
D_0105_2023 == <<"0","1","/","0","5","/","2","0","2","3">>

MkFromTo(a, b) == a \o <<" ", "-", " ">> \o b

A_1234_56 == <<"1",",","2","3","4",".","5","6">>
A_0_00 == <<"0",".","0","0">>
A_50_00 == <<"5","0",",","0","0">>
A_1_234_56 == <<"1",".","2","3","4",",","5","6">>
A_12 == <<"1","2">>
A_x == <<"x">>

MkOldBalance(amount, currency) ==
    OldWord \o <<" ">> \o BalanceWord \o amount \o <<";">> \o currency

Line1Choices ==
    { MkHeaderLine(<<"X">>, Branch, CustNumber),
      <<" ">> \o MkHeaderLine(<< >>, Branch, CustNumber) \o <<"\t">>,
      MkHeaderLine(<<"X">>, Branch, <<"4", "3">>),
      MkHeaderLine(<<"X">>, <<"2", "0", "0">>, CustNumber),
      MkHeaderLine(<<"X">>, Branch, CustNumber) \o <<"9">>,
      Line4Text }

Line2Choices ==
    { MkFromTo(D_0101_2023, D_0131_2023),
      MkFromTo(D_0201_2024, D_0229_2024),
      MkFromTo(D_0230_2023, D_0131_2023),
      MkFromTo(D_0201_2024, D_1301_2023),
      D_0101_2023 }

Line3Choices ==
    { MkOldBalance(A_1234_56, EUR),
      MkOldBalance(A_0_00, EUR),
      MkOldBalance(A_1234_56, USD),
      MkOldBalance(A_12, EUR) }

Line4Choices ==
    { Line4Text,
      Line4Text \o <<" ">>,
      SubSeq(Line4Text, 1, Len(Line4Text) - 1) }

Reverse(s) == [i \in 1..Len(s) |-> s[Len(s) + 1 - i]]
RemoveAt(s, k) == [i \in 1..(Len(s) - 1) |-> IF i < k THEN s[i] ELSE s[i + 1]]

\* Header rows: the expected one, a permutation of it, the expected names
\* with one removed, with one repeated, with a new one added, a blank line.
PermutedHeaders == { Reverse(DATA_HEADERS) }
RemovedHeaders == { RemoveAt(DATA_HEADERS, k) : k \in 1..Len(DATA_HEADERS) }
RepeatedHeaders == { Append(DATA_HEADERS, DATA_HEADERS[k]) : k \in 1..Len(DATA_HEADERS) }
ExtraHeaders == { Append(DATA_HEADERS, "Extra"), <<"Extra">> \o DATA_HEADERS }

HeaderChoices ==
    {DATA_HEADERS} \cup PermutedHeaders \cup RemovedHeaders
        \cup RepeatedHeaders \cup ExtraHeaders \cup {<< >>}

\* A row given by its fields of interest (the other columns are empty).
MkRow(booking, valuedate, payee, details, iban, debit, credit, cur) ==
    [n \in {"Booking date", "Value date", "Beneficiary / Originator",
            "Payment Details", "IBAN", "Debit", "Credit", "Currency"} |->
        CASE n = "Booking date" -> booking
          [] n = "Value date" -> valuedate
          [] n = "Beneficiary / Originator" -> payee
          [] n = "Payment Details" -> details
          [] n = "IBAN" -> iban
          [] n = "Debit" -> debit
          [] n = "Credit" -> credit
          [] n = "Currency" -> cur]

Acme == <<"A","c","m","e">>
IbanText == <<"D","E","0","0">>

\* A row whose payee and amount carry surrounding white space.
PaddedRow ==
    MkRow(D_0101_2023, D_0229_2024, <<" ">> \o Acme \o <<" ">>, Acme, EUR,
          << >>, <<" ">> \o A_1234_56 \o <<"\t">>, EUR)

OrdinaryRows ==
    { MkRow(D_0101_2023, D_0105_2023, Acme, << >>, IbanText, A_50_00, << >>, EUR),
      PaddedRow,
      MkRow(D_0101_2023, D_0105_2023, Acme, << >>, IbanText, A_50_00, A_1234_56, EUR),
      MkRow(D_0101_2023, D_0105_2023, Acme, << >>, IbanText, << >>, << >>, EUR),
      MkRow(D_0101_2023, D_0105_2023, Acme, << >>, EUR, A_50_00, A_1234_56, USD),
      MkRow(D_0101_2023, D_0105_2023, Acme, << >>, EUR, << >>, << >>, USD),
      MkRow(D_0101_2023, D_0105_2023, Acme, << >>, EUR, A_50_00, << >>, USD),
      MkRow(D_0101_2023, D_0230_2023, Acme, << >>, IbanText, A_50_00, << >>, EUR),
      MkRow(D_0101_2023, D_0105_2023, Acme, << >>, IbanText, A_x, << >>, EUR) }

BalanceRows ==
    { MkRow(AccountBalance, << >>, << >>, A_1_234_56, EUR, << >>, << >>, << >>),
      MkRow(AccountBalance, << >>, << >>, A_1234_56, EUR, A_50_00, A_1234_56, USD),
      MkRow(AccountBalance, << >>, << >>, A_1234_56, USD, << >>, << >>, EUR),
      MkRow(AccountBalance, << >>, << >>, A_x, EUR, << >>, << >>, EUR) }

\* The physical fields of a row under a header row.
Layout(fieldnames, row) ==
    [i \in 1..Len(fieldnames) |->
        IF fieldnames[i] \in DOMAIN row THEN row[fieldnames[i]] ELSE << >>]

\* The physical fields of a row as the file holds it: the padded row is
\* written with one field more than the header row has names.
Fields(fieldnames, row) ==
    Layout(fieldnames, row) \o (IF row = PaddedRow THEN <<Acme>> ELSE << >>)

\* The bank's own terminal row holds six fields only.
ShortBalanceRow == <<AccountBalance, << >>, << >>, << >>, A_1234_56, EUR>>

\* The rows OrdinaryRows and BalanceRows start with: the two that are
\* accepted as they stand.
PlainRows ==
    { MkRow(D_0101_2023, D_0105_2023, Acme, << >>, IbanText, A_50_00, << >>, EUR),
      MkRow(AccountBalance, << >>, << >>, A_1_234_56, EUR, << >>, << >>, << >>) }

\* The table lines that may follow a header row.  Under the expected header
\* row: every row above, the six-field terminal row, and a blank line.
\* Under a header row in another order or with a repeated name: the two
\* plain rows, laid out under it.
RowChoices(fieldnames) ==
    IF fieldnames = DATA_HEADERS
    THEN { Fields(fieldnames, r) : r \in OrdinaryRows \cup BalanceRows }
            \cup {ShortBalanceRow, << >>}
    ELSE { Layout(fieldnames, r) : r \in PlainRows }

\* ---------------------------------------------------------------- state
VARIABLES
    pc,                 \* where the importer is: "idle" between calls, else
                        \* the line extract reads next
    calls,              \* calls of extract made so far
    lineno,             \* extract's line counter
    consumed,           \* physical lines the call has read from the file
    line,               \* extract's variable line: the last line or row read
    reader,             \* whether the csv.DictReader has been created
    fieldnames,         \* reader.fieldnames
    table,              \* the table lines read after the header row
    entries,            \* extract's list entries
    result,             \* how the last call ended: returned or raised
    date_from,          \* self._date_from
    date_to,            \* self._date_to
    starting_balance,   \* self._starting_balance
    finishing_balance,  \* self._finishing_balance
    op,                 \* the method called: "extract" or "file_date"
    period_line,        \* line 2 of the file of this call, as read
    returned_date,      \* what file_date returned: NoDate if nothing
    contents,           \* file_.contents() of the file handed to identify
    identified,         \* what identify returned: "none" before the call
    amount,             \* the amount handed to format_number, by its parts
    formatted           \* what format_number returned

importer == <<date_from, date_to, starting_balance, finishing_balance>>
\* The arguments and results of the calls that read no importer attribute.
queries == <<contents, identified, amount, formatted>>
\* The method called and what file_date hands back.
caller == <<op, period_line, returned_date>>
vars == <<pc, calls, lineno, consumed, line, reader, fieldnames, table,
          entries, result, date_from, date_to, starting_balance,
          finishing_balance, op, period_line, returned_date, contents,
          identified, amount, formatted>>

\* The end of the file: readline() returns "" there.
EOF == <<"<EOF>">>

\* The value of self._starting_balance with its Python type: None, or the
\* str that match.group(0) is.
NoBalance == [type |-> "NoneType", value |-> None]
StrValue(text) == [type |-> "str", value |-> text]

Running == [kind |-> "none", entries |-> << >>, exc |-> NoExc]
Returned(es) == [kind |-> "returned", entries |-> es, exc |-> NoExc]
Raised(e) == [kind |-> "raised", entries |-> << >>, exc |-> e]

\* CurrentAccount.__init__: the four attributes start as None (NoDate and
\* NoNumber stand for None where a date or a Decimal is stored).
InitImporter ==
    /\ pc = "idle"
    /\ calls = 0
    /\ lineno = 0
    /\ consumed = 0
    /\ line = None
    /\ reader = FALSE
    /\ fieldnames = None
    /\ table = << >>
    /\ entries = << >>
    /\ result = Running
    /\ date_from = NoDate
    /\ date_to = NoDate
    /\ starting_balance = NoBalance
    /\ finishing_balance = NoNumber
    /\ op = "none"
    /\ period_line = None
    /\ returned_date = NoDate

\* format_number has not been called.
NotCalled == [called |-> FALSE, value |-> NoNumber]
NoAmount == [groups |-> << >>, frac |-> << >>]

\* No file has been handed to identify, no amount to format_number.
Init ==
    /\ InitImporter
    /\ contents = << >>
    /\ identified = "none"
    /\ amount = NoAmount
    /\ formatted = NotCalled

\* extract(file_) is entered, directly or from file_date(file_):
\* entries = [], lineno = 0, the file is opened.
Call ==
    /\ pc = "idle"
    /\ calls < MaxCalls
    /\ pc' = "line1"
    /\ calls' = calls + 1
    /\ lineno' = 0
    /\ consumed' = 0
    /\ line' = None
    /\ reader' = FALSE
    /\ fieldnames' = None
    /\ table' = << >>
    /\ entries' = << >>
    /\ result' = Running
    /\ op' \in {"extract", "file_date"}
    /\ period_line' = None
    /\ returned_date' = NoDate
    /\ UNCHANGED <<importer, queries>>

\* A variant of NextLine: the counter is not advanced.
NextLine_NoIncrement(raw) ==
    /\ lineno' = lineno
    /\ consumed' = IF raw = EOF THEN consumed ELSE consumed + 1
    /\ line' = IF raw = EOF THEN << >> ELSE Strip(raw)

\* next_line(): lineno += 1; return fobj.readline().strip()
NextLine(raw) ==
    /\ lineno' = lineno + 1
    /\ consumed' = IF raw = EOF THEN consumed ELSE consumed + 1
    /\ line' = IF raw = EOF THEN << >> ELSE Strip(raw)

\* An exception leaves extract: the call is over.
RaiseExc(e) ==
    /\ pc' = "idle"
    /\ result' = Raised(e)

Goto(next) ==
    /\ pc' = next
    /\ UNCHANGED result

\* Header with account name and number.
ReadHeaderLine ==
    /\ pc = "line1"
    /\ \E raw \in Line1Choices \cup {EOF} :
        /\ NextLine(raw)
        /\ IF ~ExpectedHeaderMatch(Branch, CustNumber, line')
           THEN RaiseExc(InvalidFormatError("Unexpected header", line', lineno'))
           ELSE Goto("line2")
    /\ UNCHANGED <<calls, reader, fieldnames, table, entries, importer, caller,
                   queries>>

\* From and to dates.
ReadFromTo ==
    /\ pc = "line2"
    /\ \E raw \in Line2Choices \cup {EOF} :
        /\ NextLine(raw)
        /\ period_line' = raw
        /\ LET from_and_to == FromToMatch(line')
               d1 == Strptime(from_and_to.g1)
               d2 == Strptime(from_and_to.g2)
           IN  IF ~from_and_to.matched
               THEN /\ RaiseExc(InvalidFormatError("Unexpected from and to dates", line', NoLine))
                    /\ UNCHANGED <<date_from, date_to>>
               ELSE IF ~d1.ok
               THEN /\ RaiseExc(LibraryError("ValueError"))
                    /\ UNCHANGED <<date_from, date_to>>
               ELSE IF ~d2.ok
               THEN /\ RaiseExc(LibraryError("ValueError"))
                    /\ date_from' = d1
                    /\ UNCHANGED date_to
               ELSE /\ Goto("line3")
                    /\ date_from' = d1
                    /\ date_to' = d2
    /\ UNCHANGED <<calls, reader, fieldnames, table, entries,
                   starting_balance, finishing_balance, op, returned_date,
                   queries>>

\* Starting balance.
ReadStartingBalance ==
    /\ pc = "line3"
    /\ \E raw \in Line3Choices \cup {EOF} :
        /\ NextLine(raw)
        /\ IF ~StartingBalanceMatch(Currency, line')
           THEN /\ RaiseExc(InvalidFormatError("Unexpected old balance", line', NoLine))
                /\ UNCHANGED starting_balance
           ELSE /\ Goto("line4")
                /\ starting_balance' = StrValue(line')
    /\ UNCHANGED <<calls, reader, fieldnames, table, entries,
                   date_from, date_to, finishing_balance, caller, queries>>

\* "Transactions pending are not included in this report."
ReadDisclaimer ==
    /\ pc = "line4"
    /\ \E raw \in Line4Choices \cup {EOF} :
        /\ NextLine(raw)
        /\ IF line' # Line4Text
           THEN RaiseExc(InvalidFormatError("Unexpected line", line', NoLine))
           ELSE Goto("header")
    /\ UNCHANGED <<calls, reader, fieldnames, table, entries, importer, caller,
                   queries>>

\* Data entries: the reader is created, lineno += 1, and reader.fieldnames
\* reads the header row (None at the end of the file, and set(None) is a
\* TypeError).
ReadTableHeader ==
    /\ pc = "header"
    /\ reader' = TRUE
    /\ lineno' = lineno + 1
    /\ \E raw \in HeaderChoices \cup {EOF} :
        IF raw = EOF
        THEN /\ fieldnames' = None
             /\ consumed' = consumed
             /\ RaiseExc(LibraryError("TypeError"))
        ELSE /\ fieldnames' = raw
             /\ consumed' = consumed + 1
             /\ IF HeadersDiffer(raw)
                THEN RaiseExc(InvalidFormatError("Unexpected data headers", None, lineno'))
                ELSE Goto("rows")
    /\ UNCHANGED <<calls, line, table, entries, importer, caller, queries>>

\* The reader skips a blank line without handing it to the loop.
SkipBlankLine ==
    /\ pc = "rows"
    /\ Len(table) < MaxRows
    /\ << >> \in RowChoices(fieldnames)
    /\ table' = Append(table, << >>)
    /\ consumed' = consumed + 1
    /\ UNCHANGED <<pc, calls, lineno, line, reader, fieldnames, entries,
                   result, importer, caller, queries>>

\* One iteration of "for line in reader".
ReadRow ==
    /\ pc = "rows"
    /\ Len(table) < MaxRows
    /\ \E fields \in RowChoices(fieldnames) \ {<< >>} :
        /\ table' = Append(table, fields)
        /\ consumed' = consumed + 1
        /\ lineno' = lineno + 1
        /\ line' = DictRow(fieldnames, fields)
        /\ LET out == ProcessRow(line', lineno')
           IN  CASE out.kind = "raise" ->
                      /\ RaiseExc(out.exc)
                      /\ UNCHANGED <<entries, finishing_balance>>
                 [] out.kind = "balance" ->
                      /\ Goto("rows")
                      /\ finishing_balance' = out.balance
                      /\ UNCHANGED entries
                 [] out.kind = "entry" ->
                      /\ Goto("rows")
                      /\ entries' = AppendEntry(entries, out.entry)
                      /\ UNCHANGED finishing_balance
    /\ UNCHANGED <<calls, reader, fieldnames, date_from, date_to,
                   starting_balance, caller, queries>>

\* A variant of Return: file_date returns self._date_from.
Return_DateFrom ==
    /\ pc = "rows"
    /\ pc' = "idle"
    /\ result' = Returned(entries)
    /\ returned_date' = IF op = "file_date" THEN date_from ELSE NoDate
    /\ UNCHANGED <<calls, lineno, consumed, line, reader, fieldnames, table,
                   entries, importer, op, period_line, queries>>

\* The reader is exhausted: return entries; file_date, which called extract,
\* then returns self._date_to.
Return ==
    /\ pc = "rows"
    /\ pc' = "idle"
    /\ result' = Returned(entries)
    /\ returned_date' = IF op = "file_date" THEN date_to ELSE NoDate
    /\ UNCHANGED <<calls, lineno, consumed, line, reader, fieldnames, table,
                   entries, importer, op, period_line, queries>>

Next ==
    \/ Call
    \/ ReadHeaderLine
    \/ ReadFromTo
    \/ ReadStartingBalance
    \/ ReadDisclaimer
    \/ ReadTableHeader
    \/ SkipBlankLine
    \/ ReadRow
    \/ Return

Spec == Init /\ [][Next]_vars

\* ------------------------------------------------------------- identify
\* The lines a file content handed to identify is made of.
HeaderTail == <<"X">> \o CustomerWord \o <<" ">> \o NumberWord \o <<" ">>
                  \o Branch \o <<" ">> \o CustNumber
ContentLines ==
    { MkHeaderLine(<<"X">>, Branch, CustNumber),
      MkHeaderLine(<<"X">>, Branch, <<"4", "3">>),
      TransactionsWord,
      HeaderTail,
      <<"x">> }

\* The lines joined by "\n".
RECURSIVE JoinLines(_)
JoinLines(ls) ==
    IF Len(ls) = 0 THEN << >>
    ELSE IF Len(ls) = 1 THEN ls[1]
    ELSE ls[1] \o <<"\n">> \o JoinLines(Tail(ls))

Contents ==
    { JoinLines(ls) :
        ls \in UNION { [1..n -> ContentLines] : n \in 1..MaxContentLines } }

\* A file is handed to a fresh importer's identify.
InitIdentify ==
    /\ InitImporter
    /\ contents \in Contents
    /\ identified = "none"
    /\ amount = NoAmount
    /\ formatted = NotCalled

\* identify(file_): a match object or None.
Identify ==
    /\ identified = "none"
    /\ identified' = IF identify(contents) THEN "match" ELSE "None"
    /\ UNCHANGED <<pc, calls, lineno, consumed, line, reader, fieldnames,
                   table, entries, result, importer, caller, contents,
                   amount, formatted>>

NextIdentify == Identify

SpecIdentify == InitIdentify /\ [][NextIdentify]_vars

\* -------------------------------------------------------- format_number
\* The digit groups an amount is written with.
FirstGroups == { <<"1">>, <<"1", "2">>, <<"0">> }
LaterGroups == { <<"2", "3", "4">>, <<"0", "0", "0">>, <<"5">> }
Fractions == { <<"5", "6">>, <<"0", "0">>, <<"0", "5">> }

RECURSIVE Flatten(_)
Flatten(gs) == IF gs = << >> THEN << >> ELSE gs[1] \o Flatten(Tail(gs))

\* The groups separated by ','.
RECURSIVE JoinGroups(_)
JoinGroups(gs) ==
    IF Len(gs) = 1 THEN gs[1]
    ELSE gs[1] \o <<",">> \o JoinGroups(Tail(gs))

\* The amount as written: the groups, '.', two fractional digits.
AmountText(a) == JoinGroups(a.groups) \o <<".">> \o a.frac

Amounts ==
    { a \in [groups : { <<g>> \o rest :
                          g \in FirstGroups,
                          rest \in UNION { [1..n -> LaterGroups] : n \in 0..(MaxDigits - 1) } },
             frac : Fractions] :
        Len(Flatten(a.groups)) <= MaxDigits }

\* An amount is handed to format_number.
InitFormat ==
    /\ InitImporter
    /\ contents = << >>
    /\ identified = "none"
    /\ amount \in Amounts
    /\ formatted = NotCalled

FormatNumber ==
    /\ ~formatted.called
    /\ formatted' = [called |-> TRUE, value |-> format_number(AmountText(amount))]
    /\ UNCHANGED <<pc, calls, lineno, consumed, line, reader, fieldnames,
                   table, entries, result, importer, caller, contents,
                   identified, amount>>

NextFormat == FormatNumber

SpecFormat == InitFormat /\ [][NextFormat]_vars

\* ============================================================== claims
\* The table rows the loop has been handed: the lines read, less the blank
\* ones.
DataRows == SelectSeq(table, LAMBDA f : f # << >>)
RowAt(k) == DictRow(fieldnames, DataRows[k])
\* At least one row has been handed to the loop in this call.
RowRead == DataRows # << >>
LastRow == RowAt(Len(DataRows))
NoBlankLine == \A i \in 1..Len(table) : table[i] # << >>

Finished == pc = "idle" /\ result.kind # "none"
RaisedFormat(text) ==
    /\ pc = "idle"
    /\ result.kind = "raised"
    /\ result.exc.cls = "InvalidFormatError"
    /\ result.exc.text = text

IsTerminal(r) == r["Booking date"] = AccountBalance
BothGiven(r) == Truthy(r["Debit"]) /\ Truthy(r["Credit"])
NeitherGiven(r) == ~Truthy(r["Debit"]) /\ ~Truthy(r["Credit"])
AmountField(r) == IF Truthy(r["Debit"]) THEN r["Debit"] ELSE r["Credit"]

\* A row that passes every check of the loop.
WellFormedOrdinary(r) ==
    /\ ~IsTerminal(r)
    /\ r["Currency"] = Currency
    /\ ~BothGiven(r)
    /\ ~NeitherGiven(r)
    /\ DecimalOf(Remove(AmountField(r), ",")).ok
    /\ Strptime(r["Value date"]).ok
    /\ r["Beneficiary / Originator"] # None
WellFormedTerminal(r) ==
    /\ IsTerminal(r)
    /\ r["IBAN"] = Currency
    /\ r["Payment Details"] # None
    /\ DecimalOf(Remove(r["Payment Details"], ",")).ok

\* The record the spec asks for from an ordinary row r (line number aside).
BuiltFrom(e, r) ==
    /\ Strptime(r["Value date"]).ok
    /\ e.date = [y |-> Strptime(r["Value date"]).y,
                 m |-> Strptime(r["Value date"]).m,
                 d |-> Strptime(r["Value date"]).d]
    /\ SameDecimal(e.postings[1].units.number, DecimalOf(Remove(AmountField(r), ",")))
    /\ e.postings[1].units.currency = Currency
    /\ e.postings[1].account = Account
    /\ e.payee = Strip(r["Beneficiary / Originator"])
    /\ e.narration = << >>

\* The table read is N well-formed ordinary rows, then one well-formed
\* terminal row, and the call is over.
ValidStatementRead ==
    /\ Finished
    /\ RowRead
    /\ \A k \in 1..(Len(DataRows) - 1) : WellFormedOrdinary(RowAt(k))
    /\ WellFormedTerminal(LastRow)

\* C1: for a valid statement with N ordinary rows and one terminal row,
\* extract returns exactly N records, the i-th built from the i-th ordinary
\* row, and the closing balance is the terminal row's amount.
C1_ValidStatement ==
    ValidStatementRead =>
        /\ result.kind = "returned"
        /\ Len(result.entries) = Len(DataRows) - 1
        /\ \A i \in 1..(Len(DataRows) - 1) : BuiltFrom(result.entries[i], RowAt(i))
        /\ finishing_balance.ok
        /\ SameDecimal(finishing_balance, DecimalOf(Remove(LastRow["Payment Details"], ",")))

\* Two different ordinary rows, then the terminal row, were extracted.
C1_Witness ==
    /\ ValidStatementRead
    /\ result.kind = "returned"
    /\ Len(result.entries) = 2
    /\ result.entries[1].payee # result.entries[2].payee \/ result.entries[1].date # result.entries[2].date
    /\ ~DecEq(result.entries[1].postings[1].units.number, result.entries[2].postings[1].units.number)

\* The line counter after the k-th row handed to the loop: four preamble
\* lines, the header row, k rows.
CounterAt(k) == 5 + k

\* C2 as stated: a row with both Debit and Credit given makes extract fail
\* with the "both" error carrying the row's physical line number.
C2_Original ==
    (RowRead /\ BothGiven(LastRow)) =>
        /\ RaisedFormat("Cannot have both debit and credit values")
        /\ result.exc.lineno = consumed

\* C2 amended: an ordinary row in the configured currency with both Debit
\* and Credit given makes extract fail with the "both" error, which carries
\* the line counter: 5 + k for the k-th row handed to the loop, the row's
\* physical line number when no blank line was skipped before it.
C2_Amended ==
    (RowRead /\ ~IsTerminal(LastRow) /\ LastRow["Currency"] = Currency
             /\ BothGiven(LastRow)) =>
        /\ RaisedFormat("Cannot have both debit and credit values")
        /\ result.exc.lineno = CounterAt(Len(DataRows))
        /\ NoBlankLine => result.exc.lineno = consumed

C2_Witness ==
    /\ RowRead
    /\ Len(DataRows) >= 2
    /\ ~IsTerminal(LastRow) /\ LastRow["Currency"] = Currency /\ BothGiven(LastRow)
    /\ RaisedFormat("Cannot have both debit and credit values")

\* C3 as stated: a row with neither Debit nor Credit given makes extract
\* fail with the "neither" error carrying the row's physical line number.
C3_Original ==
    (RowRead /\ NeitherGiven(LastRow)) =>
        /\ RaisedFormat("Neither debit not credit value found")
        /\ result.exc.lineno = consumed

\* C3 amended: an ordinary row in the configured currency with neither
\* Debit nor Credit given makes extract fail with the "neither" error, which
\* carries the line counter (5 + k for the k-th row handed to the loop).
C3_Amended ==
    (RowRead /\ ~IsTerminal(LastRow) /\ LastRow["Currency"] = Currency
             /\ NeitherGiven(LastRow)) =>
        /\ RaisedFormat("Neither debit not credit value found")
        /\ result.exc.lineno = CounterAt(Len(DataRows))
        /\ NoBlankLine => result.exc.lineno = consumed

C3_Witness ==
    /\ RowRead
    /\ Len(DataRows) >= 2
    /\ ~IsTerminal(LastRow) /\ LastRow["Currency"] = Currency /\ NeitherGiven(LastRow)
    /\ RaisedFormat("Neither debit not credit value found")

\* C4 as stated: any row, the terminal row included, whose Currency field
\* differs from the configured currency makes extract fail with the
\* currency error.
C4_Original ==
    (RowRead /\ LastRow["Currency"] # Currency) =>
        RaisedFormat("Unexpected currency")

\* C4 amended: an ordinary row whose Currency field differs from the
\* configured currency, and a terminal row whose IBAN field differs from it,
\* make extract fail with the currency error.
C4_Amended ==
    (RowRead /\ \/ ~IsTerminal(LastRow) /\ LastRow["Currency"] # Currency
                \/ IsTerminal(LastRow) /\ LastRow["IBAN"] # Currency) =>
        RaisedFormat("Unexpected currency")

\* A terminal row with the configured currency in its Currency field and
\* another in its IBAN field was refused.
C4_Witness ==
    /\ RowRead
    /\ IsTerminal(LastRow)
    /\ LastRow["IBAN"] # Currency
    /\ LastRow["Currency"] = Currency
    /\ RaisedFormat("Unexpected currency")

\* The header-line pattern, read as a language: "Transactions", a white
\* space, any text, ";;;Customer", a white space, "number:", a white space,
\* the branch, a white space, the number.
HeaderLineFor(branch, number, l) ==
    \E n \in 0..(Len(l) - Len(TransactionsWord) - 1) :
      \E w1, w2, w3, w4 \in Whitespace :
        l = TransactionsWord \o <<w1>>
              \o SubSeq(l, Len(TransactionsWord) + 2, Len(TransactionsWord) + 1 + n)
              \o CustomerWord \o <<w2>> \o NumberWord \o <<w3>> \o branch
              \o <<w4>> \o number

\* C5: a first line that does not match the header pattern makes extract
\* fail with "Unexpected header" at line 1, with no later line read and no
\* table reader created.
C5_HeaderMismatch ==
    (lineno = 1 /\ ~HeaderLineFor(Branch, CustNumber, line)) =>
        /\ RaisedFormat("Unexpected header")
        /\ result.exc.lineno = 1
        /\ consumed <= 1
        /\ ~reader
        /\ fieldnames = None
        /\ table = << >>

\* A first line for another customer number was refused.
C5_Witness ==
    /\ lineno = 1
    /\ consumed = 1
    /\ line = MkHeaderLine(<<"X">>, Branch, <<"4", "3">>)
    /\ RaisedFormat("Unexpected header")

WellFormedRow(r) == WellFormedOrdinary(r) \/ WellFormedTerminal(r)
AllWellFormed(n) == \A k \in 1..n : WellFormedRow(RowAt(k))

\* C6: extraction is fail-fast.  While no error has been raised every line
\* processed so far passed its checks; an error ends the call on the first
\* line that fails, which is the last line read, and no list of records is
\* returned.
C6_FailFast ==
    /\ pc = "line2" => HeaderLineFor(Branch, CustNumber, line)
    /\ pc = "line3" =>
        /\ MatchFixed(FromToPat, line)
        /\ Strptime(SubSeq(line, 1, 10)).ok
        /\ Strptime(SubSeq(line, 14, 23)).ok
    /\ pc = "line4" => StartingBalanceMatch(Currency, line)
    /\ pc = "header" => line = Line4Text
    /\ pc = "rows" => Range(fieldnames) = Range(DATA_HEADERS)
    /\ result.kind # "raised" => AllWellFormed(Len(DataRows))
    /\ result.kind = "raised" =>
        /\ pc = "idle"
        /\ result.entries = << >>
        /\ AllWellFormed(Len(DataRows) - 1)
        /\ RowRead =>
            /\ ~WellFormedRow(LastRow)
            /\ table[Len(table)] # << >>

\* A row failed after records had been built from the rows before it.
C6_Witness ==
    /\ result.kind = "raised"
    /\ Len(entries) >= 2
    /\ result.entries = << >>

\* The physical number of the line the call ended on.
OffendingLine == IF table = << >> THEN lineno ELSE consumed

\* C7: every InvalidFormatError of extract carries the 1-based physical
\* number of the offending line.
C7_Original ==
    (pc = "idle" /\ result.kind = "raised"
        /\ result.exc.cls = "InvalidFormatError") =>
        result.exc.lineno = OffendingLine

HeaderRefused == RaisedFormat("Unexpected data headers") /\ table = << >>
HeaderRowRead == reader /\ fieldnames # None
IsPermutation(fn) ==
    /\ Len(fn) = Len(DATA_HEADERS)
    /\ \/ fn = DATA_HEADERS
       \/ \A k \in 1..Len(DATA_HEADERS) :
             Cardinality({i \in 1..Len(fn) : fn[i] = DATA_HEADERS[k]}) = 1
OneRemoved(fn) ==
    /\ Len(fn) = Len(DATA_HEADERS) - 1
    /\ \E k \in 1..Len(DATA_HEADERS) : fn = RemoveAt(DATA_HEADERS, k)
OneAdded(fn) ==
    /\ Len(fn) = Len(DATA_HEADERS) + 1
    /\ \E k \in 1..Len(fn) : RemoveAt(fn, k) = DATA_HEADERS
OneNewAdded(fn) ==
    /\ Len(fn) = Len(DATA_HEADERS) + 1
    /\ \E k \in 1..Len(fn) :
          RemoveAt(fn, k) = DATA_HEADERS /\ fn[k] \notin Range(DATA_HEADERS)

\* C8 as stated: a permutation of the 18 names is accepted; the 18 names
\* with any name added, or any name removed, are refused.
C8_Original ==
    HeaderRowRead =>
        /\ IsPermutation(fieldnames) => ~HeaderRefused
        /\ OneAdded(fieldnames) => HeaderRefused
        /\ OneRemoved(fieldnames) => HeaderRefused

\* C8 amended: a permutation of the 18 names is accepted; the 18 names with
\* a name that is not one of them added, or with any name removed, are
\* refused (a repeated expected name is accepted).
C8_Amended ==
    HeaderRowRead =>
        /\ IsPermutation(fieldnames) => ~HeaderRefused
        /\ OneNewAdded(fieldnames) => HeaderRefused
        /\ OneRemoved(fieldnames) => HeaderRefused

\* A record was built under a header row in another order.
C8_Witness ==
    /\ HeaderRowRead
    /\ fieldnames # DATA_HEADERS
    /\ IsPermutation(fieldnames)
    /\ Len(entries) >= 1

OrdinaryCount == Cardinality({k \in 1..Len(DataRows) : ~IsTerminal(RowAt(k))})

IsC9Row(r) ==
    /\ ~IsTerminal(r)
    /\ r["Debit"] = A_50_00
    /\ r["Credit"] = << >>
    /\ r["Currency"] = EUR
    /\ r["Value date"] = D_0105_2023
    /\ r["Beneficiary / Originator"] = Acme

C9Record(number) ==
    /\ result.kind # "raised"
    /\ Len(entries) = OrdinaryCount
    /\ LET e == entries[Len(entries)]
       IN  /\ e.date = [y |-> 2023, m |-> 1, d |-> 5]
           /\ DecEq(e.postings[1].units.number, number)
           /\ e.payee = Acme
           /\ e.narration = << >>

\* C9 as stated: the row Debit "50,00", Credit "", Currency EUR, Value date
\* 01/05/2023, Beneficiary Acme yields one record with amount 50.00.
C9_Original ==
    (RowRead /\ IsC9Row(LastRow)) =>
        C9Record(Finite(5000, 2))

\* C9 amended: that row yields one record with date 2023-01-05, amount 5000
\* (the ',' is removed as a thousands separator), payee Acme and an empty
\* narration.
C9_Amended ==
    (RowRead /\ IsC9Row(LastRow)) =>
        C9Record(Finite(5000, 0))

C9_Witness ==
    /\ RowRead
    /\ IsC9Row(LastRow)
    /\ Len(entries) = 1
    /\ entries[1].postings[1].units.number.coef = 5000

IsC10Row(r) ==
    /\ IsTerminal(r)
    /\ r["IBAN"] = EUR
    /\ r["Payment Details"] = A_1_234_56

C10Balance(number) ==
    /\ result.kind # "raised"
    /\ finishing_balance.ok
    /\ DecEq(finishing_balance, number)
    /\ Len(entries) = OrdinaryCount

\* C10 as stated: the terminal row with IBAN field EUR and Payment Details
\* "1.234,56" records a closing balance of 1234.56 and emits no record.
C10_Original ==
    (RowRead /\ IsC10Row(LastRow)) =>
        C10Balance(Finite(123456, 2))

\* C10 amended: that row records a closing balance of 1.23456 (the ',' is
\* removed and the '.' is the decimal point) and emits no record.
C10_Amended ==
    (RowRead /\ IsC10Row(LastRow)) =>
        C10Balance(Finite(123456, 5))

C10_Witness ==
    /\ RowRead
    /\ IsC10Row(LastRow)
    /\ Len(entries) = 1
    /\ Len(DataRows) = 2
    /\ finishing_balance = Finite(123456, 5)


\* Some line of the content, taken between line breaks, is a header line
\* for the configured branch and number.
SomeLineIsHeader(c) ==
    \E b, e \in 1..Len(c) :
        /\ b <= e
        /\ b = 1 \/ c[b - 1] = "\n"
        /\ e = Len(c) \/ c[e + 1] = "\n"
        /\ \A i \in b..e : c[i] # "\n"
        /\ HeaderLineFor(Branch, CustNumber, SubSeq(c, b, e))

\* The content begins with a text of the header-line language that stops
\* at a line end; the text between "Transactions" and ";;;Customer" holds
\* no line break, the white spaces may be line breaks.
HeaderAtStart(c) ==
    \E e \in 1..Len(c) :
        /\ e = Len(c) \/ c[e + 1] = "\n"
        /\ HeaderLineFor(Branch, CustNumber, SubSeq(c, 1, e))
        /\ \A i \in (Len(HeaderPrefixPat) + 1)..(e - Len(HeaderSuffixPat(Branch, CustNumber))) :
              c[i] # "\n"

\* C11 as stated: identify returns a match exactly when some line anywhere
\* in the file content matches the header-line pattern for the configured
\* branch and number, also when that line is not the first.
C11_Original ==
    identified # "none" =>
        (identified = "match" <=> SomeLineIsHeader(contents))

\* The content begins with the word "Transactions".
BeginsWithTransactions(c) ==
    /\ Len(c) >= Len(TransactionsWord)
    /\ SubSeq(c, 1, Len(TransactionsWord)) = TransactionsWord

\* C11 amended: identify returns a match exactly when the header-line
\* pattern matches at the first character of the content and ends at a line
\* end or at the end of the content, each white space of the pattern being
\* a blank, a tab or a line break and the free text holding no line break.
\* A content that does not begin with "Transactions" is not identified,
\* also when one of its later lines is a matching header line.
C11_Amended ==
    identified # "none" =>
        /\ identified = "match" <=> HeaderAtStart(contents)
        /\ identified = "match" => BeginsWithTransactions(contents)
        /\ (SomeLineIsHeader(contents) /\ ~BeginsWithTransactions(contents)) =>
              identified = "None"

\* identify has refused a content that begins with another line and holds
\* a matching header line further down.
C11_Witness ==
    /\ identified = "None"
    /\ SomeLineIsHeader(contents)
    /\ contents[1] = "x"


\* C12 as stated: every failure of extract caused by the document's content
\* is an InvalidFormatError, also for a date that matches the digit pattern
\* but is no calendar date and for an amount that is no number.
C12_Original ==
    result.kind = "raised" => result.exc.cls = "InvalidFormatError"

\* What a fresh importer holds before its first call.
FreshImporter == <<NoDate, NoDate, NoBalance, NoNumber>>

\* A terminal row of this call's table gave the closing balance.
ClosingFromThisCall ==
    \E k \in 1..Len(DataRows) :
        /\ WellFormedTerminal(RowAt(k))
        /\ finishing_balance = format_number(RowAt(k)["Payment Details"])

\* C13 as stated: after any sequence of extract calls the period start, the
\* period end, the opening balance and the closing balance held by the
\* importer are determined by the most recent call alone: a call that
\* failed on line 1 leaves what a fresh importer holds, and each value held
\* was set by a line or row the most recent call read.
C13_Original ==
    Finished =>
        /\ lineno = 1 => importer = FreshImporter
        /\ date_from.ok => lineno >= 2
        /\ date_to.ok => lineno >= 3
        /\ starting_balance # NoBalance => lineno >= 4
        /\ finishing_balance.ok => ClosingFromThisCall

\* The amount of an accepted old-balance line: the text between the prefix
\* and ";<currency>".
OldBalanceAmount(l) ==
    SubSeq(l, Len(StartingBalancePrefixPat) + 1, Len(l) - Len(Currency) - 1)

\* C14 as stated: once line 3 is accepted, the opening balance held by the
\* importer is the decimal value of the amount on line 3 with its thousands
\* separators stripped, not the text of the line.
C14_Original ==
    pc = "line4" =>
        /\ starting_balance.type = "Decimal"
        /\ DecEq(starting_balance.value, format_number(OldBalanceAmount(line)))

TerminalCount == Cardinality({k \in 1..Len(DataRows) : IsTerminal(RowAt(k))})

\* C15 as stated: whenever extract returns, the table it read was terminated
\* by exactly one 'Account balance' row, which was the last row and gave the
\* closing balance; a table with no terminal row, with rows after it or with
\* two terminal rows makes extract fail.
C15_Original ==
    result.kind = "returned" =>
        /\ RowRead
        /\ IsTerminal(LastRow)
        /\ TerminalCount = 1
        /\ finishing_balance = format_number(LastRow["Payment Details"])


\* The position in the table of the i-th row that is not a terminal row.
OrdinaryIndex(i) ==
    CHOOSE k \in 1..Len(DataRows) :
        /\ ~IsTerminal(RowAt(k))
        /\ Cardinality({j \in 1..k : ~IsTerminal(RowAt(j))}) = i

\* The counter at each point of a call: the number of preamble lines read,
\* then 5 + the number of data rows handed to the loop; each transaction
\* record carries the counter of the row it was built from.
LineCounterOK ==
    /\ pc = "line1" => lineno = 0
    /\ pc = "line2" => lineno = 1
    /\ pc = "line3" => lineno = 2
    /\ pc = "line4" => lineno = 3
    /\ pc = "header" => lineno = 4
    /\ pc = "rows" => lineno = CounterAt(Len(DataRows))
    /\ Len(entries) <= Cardinality({k \in 1..Len(DataRows) : ~IsTerminal(RowAt(k))})
    /\ \A i \in 1..Len(entries) :
          entries[i].meta.lineno = CounterAt(OrdinaryIndex(i))

\* C16: the counter is incremented once for each of the four preamble
\* lines, once for the table header row and once per data row, so the k-th
\* data row is processed with line number 5 + k and the transaction record
\* built from it carries that number; the counter never decreases during a
\* call and starts again from 0 on each call.
C16_LineCounter ==
    [][ /\ LineCounterOK'
        /\ Len(DataRows') > Len(DataRows) =>
              /\ lineno' = CounterAt(Len(DataRows'))
              /\ Len(entries') > Len(entries) =>
                    entries'[Len(entries')].meta.lineno = lineno'
        /\ calls' = calls => lineno' >= lineno
        /\ calls' # calls => lineno' = 0
      ]_vars

\* In a second call, after a first call that counted further, a record has
\* been built from the third data row.
C16_Witness ==
    /\ calls = 2
    /\ pc = "rows"
    /\ Len(DataRows) = 3
    /\ Len(entries) >= 2
    /\ entries[Len(entries)].meta.lineno = 8


\* The end date written on a date-range line: the last ten characters of
\* the line without its surrounding white space, read as mm/dd/yyyy.
EndDateOf(raw) ==
    LET l == Strip(raw)
        n == Len(l)
    IN  [ok |-> TRUE,
         y |-> ToInt(SubSeq(l, n - 3, n)),
         m |-> ToInt(SubSeq(l, n - 9, n - 8)),
         d |-> ToInt(SubSeq(l, n - 6, n - 5))]

\* C17: file_date(f) runs extraction on f and returns the end date of f's
\* own date-range line whenever that extraction succeeds, whatever calls
\* were made before; when the extraction fails, file_date fails with the
\* same error and returns no date.
C17_FileDate ==
    (pc = "idle" /\ op = "file_date") =>
        /\ result.kind = "returned" => returned_date = EndDateOf(period_line)
        /\ result.kind = "raised" => returned_date = NoDate

\* A second call, file_date, has returned the end date of its file.
C17_Witness ==
    /\ calls = 2
    /\ pc = "idle"
    /\ op = "file_date"
    /\ result.kind = "returned"
    /\ date_from.ok
    /\ returned_date = [ok |-> TRUE, y |-> 2024, m |-> 2, d |-> 29]


\* C18: for an amount written as digit groups separated by ',' then '.' and
\* two fractional digits, format_number gives the value of the same text
\* written without separators, and the two fractional digits are unchanged.
C18_Format ==
    formatted.called =>
        LET plain == Flatten(amount.groups) \o <<".">> \o amount.frac
        IN  /\ formatted.value.ok
            /\ DecEq(formatted.value, DecimalOf(plain))
            /\ formatted.value.scale = 2
            /\ formatted.value.coef % 100 = ToInt(amount.frac)
            /\ formatted.value.coef \div 100 = ToInt(Flatten(amount.groups))

\* format_number has converted "1,234,000.56".
C18_Witness ==
    /\ formatted.called
    /\ AmountText(amount) = <<"1", ",", "2", "3", "4", ",", "0", "0", "0", ".", "5", "6">>
    /\ formatted.value = Finite(123400056, 2)

====
